---- MODULE Spec2Model ----
(***************************************************************************)
(* State-machine model of the FX pipeline (MessaoudiOussama/fx-pipeline):  *)
(*   pipeline.run  =  fetch_fx_rates -> compute_cross_pairs -> load        *)
(* with the two sinks etl/load.py (DuckDB star schema) and                 *)
(* etl/load_azure.py (Parquet blobs in ADLS Gen2).                         *)
(*                                                                         *)
(* Representation choices                                                  *)
(*  - A date string "YYYY-MM-DD" is the triple <<y, m, d>>; a polars/DuckDB *)
(*    Date is the number of days since 1970-01-01.                         *)
(*  - A raw rate (a float with two decimals in the fixtures) is an integer *)
(*    number of hundredths; an emitted rate, which the code rounds to 6    *)
(*    decimals, is the pair <<whole part, millionths of the fraction>>.    *)
(*    The quotient is computed exactly and rounded half-to-even, which is  *)
(*    what Python's round() does on the quotients that occur here (none    *)
(*    is a tie).                                                           *)
(*  - raw_rates, a dict, is the sequence of its items in insertion order.  *)
(*  - A table or a Parquet file is the set / sequence of its rows.         *)
(***************************************************************************)
EXTENDS Integers, Sequences, FiniteSets, TLC

(***************************************************************************)
(* Bounds of the model.                                                    *)
(***************************************************************************)
\* number of consecutive calendar days, from FirstDateStr on, the source may return
MaxDates == 3
\* number of pipeline.run invocations in one behaviour
MaxRuns == 2
\* number of source or sink errors in one behaviour
MaxFaults == 1
\* number of dates in one raw mapping of the transform-only specification
MaxRawLen == 2

(***************************************************************************)
(* config.py                                                               *)
(***************************************************************************)
CURRENCIES == <<"NOK", "EUR", "SEK", "PLN", "RON", "DKK", "CZK">>

BASE_CURRENCY == "EUR"

CURRENCY_NAMES ==
  [c \in {"NOK", "EUR", "SEK", "PLN", "RON", "DKK", "CZK"} |->
     CASE c = "NOK" -> "Norwegian Krone"
       [] c = "EUR" -> "Euro"
       [] c = "SEK" -> "Swedish Krona"
       [] c = "PLN" -> "Polish Zloty"
       [] c = "RON" -> "Romanian Leu"
       [] c = "DKK" -> "Danish Krone"
       [] c = "CZK" -> "Czech Koruna"]

\* the set of configured codes
CurrencySet == {CURRENCIES[i] : i \in 1..Len(CURRENCIES)}

\* the literal 1.0 injected for the base currency, in hundredths
BaseSelfRate == 100

\* ndigits of round(cross_rate, 6)
RoundDigits == 6

(***************************************************************************)
(* Strings and dates                                                       *)
(***************************************************************************)
\* the currency codes in the order string comparison gives them
CodeOrder == <<"CZK", "DKK", "EUR", "NOK", "PLN", "RON", "SEK">>

\* str.to_date(): days since 1970-01-01 of the proleptic Gregorian date y-m-d
DaysFromCivil(s) ==
  LET y   == IF s[2] <= 2 THEN s[1] - 1 ELSE s[1]
      era == y \div 400
      yoe == y - era * 400
      mp  == IF s[2] > 2 THEN s[2] - 3 ELSE s[2] + 9
      doy == (153 * mp + 2) \div 5 + s[3] - 1
      doe == yoe * 365 + yoe \div 4 - yoe \div 100 + doy
  IN  era * 146097 + doe - 719468

\* the calendar fields of a Date: <<year, month, day>>
CivilFromDays(n) ==
  LET z   == n + 719468
      era == z \div 146097
      doe == z - era * 146097
      yoe == (doe - doe \div 1460 + doe \div 36524 - doe \div 146096) \div 365
      doy == doe - (365 * yoe + yoe \div 4 - yoe \div 100)
      mp  == (5 * doy + 2) \div 153
      d   == doy - (153 * mp + 2) \div 5 + 1
      m   == IF mp < 10 THEN mp + 3 ELSE mp - 9
      y   == yoe + era * 400 + (IF m <= 2 THEN 1 ELSE 0)
  IN  <<y, m, d>>

YearOf(n) == CivilFromDays(n)[1]

MonthOf(n) == CivilFromDays(n)[2]

DayOf(n) == CivilFromDays(n)[3]

\* datetime.date.weekday(): Monday = 0 ... Sunday = 6 (1970-01-01 was a Thursday)
PyWeekday(n) == (n + 3) % 7

(***************************************************************************)
(* Source data (the external rate source)                                  *)
(***************************************************************************)
\* the first date the source may return (a Friday; the next days are a
\* Saturday, a Sunday in the next month, a Monday)
FirstDateStr == <<2026, 2, 27>>

DateStrAt(k) == CivilFromDays(DaysFromCivil(FirstDateStr) + k - 1)

\* the two rows of tests/conftest.py, in hundredths
FixtureRates ==
  << [NOK |-> 1174, SEK |-> 1123, PLN |-> 421, RON |-> 498, DKK |-> 746, CZK |-> 2510],
     [NOK |-> 1176, SEK |-> 1125, PLN |-> 422, RON |-> 497, DKK |-> 746, CZK |-> 2512] >>

NonBase == CurrencySet \ {BASE_CURRENCY}

\* one date's raw mapping: rate table v, without the codes in `missing`,
\* and with the base key set to `baseRate` when baseRate > 0
MkRates(v, missing, baseRate) ==
  [c \in (NonBase \ missing) \cup (IF baseRate > 0 THEN {BASE_CURRENCY} ELSE {}) |->
     IF c = BASE_CURRENCY THEN baseRate ELSE FixtureRates[v][c]]

\* a complete raw mapping of one date
FullProfiles == {MkRates(v, {}, 0) : v \in 1..Len(FixtureRates)}

\* a complete raw mapping with rates far apart: PLN at 0.01, CZK at 25000.00
FarApartRates ==
  [c \in NonBase |-> IF c = "PLN" THEN 1
                     ELSE IF c = "CZK" THEN 2500000
                     ELSE FixtureRates[1][c]]

\* the other raw mappings of one date: one currency missing, the base
\* currency among the keys (at 2.0), no rate at all, rates far apart
OddProfiles ==
  {MkRates(1, {c}, 0) : c \in NonBase}
    \cup {MkRates(v, {}, 200) : v \in 1..Len(FixtureRates)}
    \cup {MkRates(1, NonBase, 0)}
    \cup {FarApartRates}

(***************************************************************************)
(* etl/transform.py                                                        *)
(***************************************************************************)
\* itertools.combinations(seq, 2) in the place of permutations: the pairs
\* <<seq[i], seq[j]>> with i < j only
combinations2(seq) ==
  LET n == Len(seq)
      all == [k \in 1..(n * (n - 1)) |->
                LET i  == ((k - 1) \div (n - 1)) + 1
                    jj == ((k - 1) % (n - 1)) + 1
                    j  == IF jj < i THEN jj ELSE jj + 1
                IN  <<i, j>>]
      up  == SelectSeq(all, LAMBDA p : p[1] < p[2])
  IN  [k \in 1..Len(up) |-> <<seq[up[k][1]], seq[up[k][2]]>>]

\* itertools.permutations(seq, 2), in its order
permutations2(seq) ==
  LET n == Len(seq)
  IN  [k \in 1..(n * (n - 1)) |->
         LET i  == ((k - 1) \div (n - 1)) + 1
             jj == ((k - 1) % (n - 1)) + 1
             j  == IF jj < i THEN jj ELSE jj + 1
         IN  <<seq[i], seq[j]>>]

\* {BASE_CURRENCY: 1.0, **rates_vs_eur}
full_rates(rates_vs_eur) ==
  [c \in {BASE_CURRENCY} \cup DOMAIN rates_vs_eur |->
     IF c \in DOMAIN rates_vs_eur THEN rates_vs_eur[c] ELSE BaseSelfRate]

RECURSIVE Scaled(_, _, _)
\* floor(num * 10^k / den) and the remainder, by long division
Scaled(num, den, k) ==
  IF k = 0 THEN [q |-> num \div den, r |-> num % den]
  ELSE LET p == Scaled(num, den, k - 1)
       IN  [q |-> p.q * 10 + (p.r * 10) \div den, r |-> (p.r * 10) % den]

\* round(num / den, 6) as <<whole part, millionths>> (round half to even)
round6(num, den) ==
  LET s == Scaled(num % den, den, RoundDigits)
      q == IF 2 * s.r > den \/ (2 * s.r = den /\ s.q % 2 = 1) THEN s.q + 1 ELSE s.q
  IN  IF q = 10 ^ RoundDigits THEN <<(num \div den) + 1, 0>> ELSE <<num \div den, q>>

\* break in the place of continue: the pairs before the first one with a
\* missing rate
KeptPairsUntilMissing(full) ==
  LET ps  == permutations2(CURRENCIES)
      bad == {k \in 1..Len(ps) : ps[k][1] \notin DOMAIN full \/ ps[k][2] \notin DOMAIN full}
  IN  IF bad = {} THEN ps
      ELSE SubSeq(ps, 1, (CHOOSE k \in bad : \A j \in bad : k <= j) - 1)

\* the pairs of one date that are not skipped
KeptPairs(full) ==
  SelectSeq(permutations2(CURRENCIES),
            LAMBDA p : p[1] \in DOMAIN full /\ p[2] \in DOMAIN full)

\* the records appended for one item of raw_rates
DateRecords(item) ==
  LET full == full_rates(item.rates)
      kept == KeptPairs(full)
  IN  [k \in 1..Len(kept) |->
         [date          |-> item.date,
          from_currency |-> kept[k][1],
          to_currency   |-> kept[k][2],
          rate          |-> round6(full[kept[k][2]], full[kept[k][1]])]]

RECURSIVE Records(_)
\* the list `records` after the loop over raw_rates.items()
Records(raw_rates) ==
  IF raw_rates = <<>> THEN <<>>
  ELSE DateRecords(Head(raw_rates)) \o Records(Tail(raw_rates))

RECURSIVE FlattenRange(_, _, _)
FlattenRange(ss, lo, hi) ==
  IF lo > hi THEN <<>>
  ELSE IF lo = hi THEN ss[lo]
  ELSE LET mid == (lo + hi) \div 2
       IN  FlattenRange(ss, lo, mid) \o FlattenRange(ss, mid + 1, hi)

\* the first k sequences of ss, one after the other
Flatten(ss, k) == FlattenRange(ss, 1, k)

RECURSIVE SortedDates(_)
\* a set of dates in ascending order
SortedDates(S) ==
  IF S = {} THEN <<>>
  ELSE LET m == CHOOSE x \in S : \A y \in S : x <= y
       IN  <<m>> \o SortedDates(S \ {m})

\* the rows of s whose to_currency is c, in their order
WithTo(s, c) == SelectSeq(s, LAMBDA r : r.to_currency = c)

\* the rows of s whose from_currency is c, in their order
WithFrom(s, c) == SelectSeq(s, LAMBDA r : r.from_currency = c)

\* the rows of s whose date is d, in their order
WithDate(s, d) == SelectSeq(s, LAMBDA r : r.date = d)

SortByTo(s) ==
  Flatten([j \in 1..Len(CodeOrder) |-> WithTo(s, CodeOrder[j])], Len(CodeOrder))

SortByFromTo(s) ==
  Flatten([i \in 1..Len(CodeOrder) |-> SortByTo(WithFrom(s, CodeOrder[i]))],
          Len(CodeOrder))

\* the frame without the .sort(...) call: the records in the order of the loops
UnsortedRows(s) == s

\* .sort(["date", "from_currency", "to_currency"]): the rows by ascending
\* date, then by from_currency and to_currency in string order, rows of
\* equal key staying in their order
SortRows(s) ==
  LET dates == SortedDates({s[k].date : k \in 1..Len(s)})
  IN  Flatten([k \in 1..Len(dates) |-> SortByFromTo(WithDate(s, dates[k]))],
              Len(dates))

\* .with_columns(pl.col("date").str.to_date())
ToDateColumn(recs) ==
  [k \in 1..Len(recs) |-> [recs[k] EXCEPT !.date = DaysFromCivil(recs[k].date)]]

\* df["date"].n_unique()
n_unique_dates(rows) == Cardinality({rows[k].date : k \in 1..Len(rows)})

\* a division by a zero rate raises ZeroDivisionError
DividesByZero(raw_rates) ==
  \E i \in 1..Len(raw_rates) :
    LET full == full_rates(raw_rates[i].rates)
    IN  \E k \in 1..Len(KeptPairs(full)) : full[KeptPairs(full)[k][1]] = 0

\* compute_cross_pairs(raw_rates): the frame returned, or the exception raised.
\* With no record the frame has no "date" column and n_unique() is 0, so
\* building the frame and the integer division of the log line both raise.
compute_cross_pairs(raw_rates) ==
  IF DividesByZero(raw_rates) THEN [status |-> "raised", df |-> <<>>]
  ELSE LET recs == Records(raw_rates)
       IN  IF Len(recs) = 0 \/ n_unique_dates(recs) = 0
           THEN [status |-> "raised", df |-> <<>>]
           ELSE [status |-> "ok", df |-> SortRows(ToDateColumn(recs))]

(***************************************************************************)
(* State                                                                   *)
(***************************************************************************)
VARIABLES
  sink,              \* "duckdb" or "adls": whether ADLS_CONNECTION_STRING is set
  burn,              \* whether the engine draws nextval() for a row it then skips
  container,         \* whether the ADLS container ADLS_CONTAINER_NAME exists
  calls,             \* history: the stages the current run has invoked, in order
  pc,                \* position of pipeline.run / load
  runs,              \* pipeline.run invocations started (the clock of created_at)
  faults,            \* errors raised so far by the source or the sink
  raw,               \* raw_rates of the current run
  df,                \* the frame compute_cross_pairs returned
  outcome,           \* how the last run ended: "none", "ok", or the error
  tables,            \* DuckDB file: the DDL has been applied
  seq_currency_id, seq_date_id, seq_rate_id,
  dim_currency, dim_date, fact_fx_rates,
  blob_dim_currency, blob_dim_date, blob_fact,   \* ADLS container
  groups,            \* load_azure: the (year, month) groups not yet uploaded
  pre,               \* history: the sink when the current load call started
  prev,              \* history: the last load call that returned, and the sink then
  first_rate,        \* history: per fact key, the rate and time of the first fact write with it
  completed          \* history: some load call has returned

duck == <<tables, seq_currency_id, seq_date_id, seq_rate_id,
          dim_currency, dim_date, fact_fx_rates>>

adls == <<blob_dim_currency, blob_dim_date, blob_fact, groups>>

hist == <<pre, prev, first_rate, completed>>

vars == <<sink, burn, container, calls, pc, runs, faults, raw, df, outcome, duck, adls, hist>>

NoBlob == [exists |-> FALSE, rows |-> <<>>]

Blob(rows) == [exists |-> TRUE, rows |-> rows]

\* what the sinks hold, as the history variables record it
Snapshot ==
  [dim_currency |-> dim_currency, dim_date |-> dim_date,
   fact_fx_rates |-> fact_fx_rates,
   blob_dim_currency |-> blob_dim_currency, blob_dim_date |-> blob_dim_date,
   blob_fact |-> blob_fact]

NoPrev == [ok |-> FALSE, df |-> <<>>, snap |-> <<>>]

(***************************************************************************)
(* etl/load.py                                                             *)
(***************************************************************************)
\* the INSERT without its ON CONFLICT clause (and without the UNIQUE
\* constraint that would then reject the row)
InsertDimCurrencyAlways(table, id, code) ==
  table \cup {[currency_id   |-> id,
               currency_code |-> code,
               currency_name |-> CURRENCY_NAMES[code]]}

\* INSERT INTO dim_currency ... ON CONFLICT (currency_code) DO NOTHING
InsertDimCurrency(table, id, code) ==
  IF \E r \in table : r.currency_code = code THEN table
  ELSE table \cup {[currency_id   |-> id,
                    currency_code |-> code,
                    currency_name |-> CURRENCY_NAMES[code]]}

\* a sequence after one INSERT that drew from it or skipped the row
NextVal(seq, inserted) == IF inserted \/ burn THEN seq + 1 ELSE seq

RECURSIVE DimCurrencyLoop(_, _)
\* _load_dim_currency after the first k codes of CURRENCIES
DimCurrencyLoop(st, k) ==
  IF k = 0 THEN st
  ELSE LET p == DimCurrencyLoop(st, k - 1)
           t == InsertDimCurrency(p.table, p.seq, CURRENCIES[k])
       IN  [table |-> t, seq |-> NextVal(p.seq, t # p.table)]

\* the values _load_dim_date binds for date d
DimDateRow(id, d) ==
  [date_id    |-> id,
   full_date  |-> d,
   year       |-> YearOf(d),
   month      |-> MonthOf(d),
   quarter    |-> ((MonthOf(d) - 1) \div 3) + 1,
   day        |-> DayOf(d),
   is_weekend |-> PyWeekday(d) >= 5]

\* INSERT OR REPLACE INTO dim_date: the row of the date is replaced, and
\* gets a new date_id
ReplaceDimDate(table, id, d) ==
  {r \in table : r.full_date # d} \cup {DimDateRow(id, d)}

\* INSERT INTO dim_date ... ON CONFLICT (full_date) DO NOTHING
InsertDimDate(table, id, d) ==
  IF \E r \in table : r.full_date = d THEN table
  ELSE table \cup {DimDateRow(id, d)}

\* df["date"].unique().sort()
UniqueDates(frame) == SortedDates({frame[k].date : k \in 1..Len(frame)})

RECURSIVE DimDateLoopUntilConflict(_, _, _)
\* the loop of _load_dim_date left at the first date the table already has
DimDateLoopUntilConflict(st, dates, k) ==
  IF k = 0 THEN st
  ELSE LET p == DimDateLoopUntilConflict(st, dates, k - 1)
       IN  IF \E j \in 1..k : \E r \in st.table : r.full_date = dates[j]
           THEN p
           ELSE [table |-> p.table \cup {DimDateRow(p.seq, dates[k])},
                 seq   |-> p.seq + 1]

RECURSIVE DimDateLoop(_, _, _)
\* _load_dim_date after the first k dates
DimDateLoop(st, dates, k) ==
  IF k = 0 THEN st
  ELSE LET p == DimDateLoop(st, dates, k - 1)
           t == InsertDimDate(p.table, p.seq, dates[k])
       IN  [table |-> t, seq |-> NextVal(p.seq, t # p.table)]

RECURSIVE SetToSeq(_)
SetToSeq(S) ==
  IF S = {} THEN <<>>
  ELSE LET x == CHOOSE x \in S : TRUE IN <<x>> \o SetToSeq(S \ {x})

\* the JOINs with tc joined ON tc.currency_code = df.from_currency
JoinRowBothOnFrom(r, dates, currencies) ==
  {[date_id          |-> d.date_id,
    from_currency_id |-> fc.currency_id,
    to_currency_id   |-> tc.currency_id,
    rate             |-> r.rate] :
     d  \in {x \in dates : x.full_date = r.date},
     fc \in {x \in currencies : x.currency_code = r.from_currency},
     tc \in {x \in currencies : x.currency_code = r.from_currency}}

\* the rows the three JOINs of _load_fact give for one row of df
JoinRow(r, dates, currencies) ==
  {[date_id          |-> d.date_id,
    from_currency_id |-> fc.currency_id,
    to_currency_id   |-> tc.currency_id,
    rate             |-> r.rate] :
     d  \in {x \in dates : x.full_date = r.date},
     fc \in {x \in currencies : x.currency_code = r.from_currency},
     tc \in {x \in currencies : x.currency_code = r.to_currency}}

\* the SELECT of _load_fact: the joined rows, in the order of df
Joined(frame, dates, currencies) ==
  Flatten([k \in 1..Len(frame) |-> SetToSeq(JoinRow(frame[k], dates, currencies))],
          Len(frame))

\* the columns of UNIQUE (date_id, from_currency_id, to_currency_id)
FactKey(r) == <<r.date_id, r.from_currency_id, r.to_currency_id>>

\* the INSERT of _load_fact without its ON CONFLICT clause (and without the
\* UNIQUE constraint): every selected row is inserted
InsertedAlways(table, J, k) == TRUE

\* ON CONFLICT (date_id, from_currency_id, to_currency_id) DO NOTHING: the
\* selected row J[k] is inserted unless a row of the table, or a row
\* selected before it, has its key
Inserted(table, J, k) ==
  /\ \A r \in table : FactKey(r) # FactKey(J[k])
  /\ \A j \in 1..(k - 1) : FactKey(J[j]) # FactKey(J[k])

\* ON CONFLICT ... DO UPDATE SET rate = excluded.rate in the place of DO
\* NOTHING: a row whose key is selected again takes the incoming rate
InsertFactsUpdate(table, seq, J, now) ==
  LET ins == SelectSeq([k \in 1..Len(J) |-> k], LAMBDA k : Inserted(table, J, k))
      new == {[rate_id          |-> IF burn THEN seq + ins[m] - 1 ELSE seq + m - 1,
               date_id          |-> J[ins[m]].date_id,
               from_currency_id |-> J[ins[m]].from_currency_id,
               to_currency_id   |-> J[ins[m]].to_currency_id,
               rate             |-> J[ins[m]].rate,
               created_at       |-> now] : m \in 1..Len(ins)}
      upd == {IF \E k \in 1..Len(J) : FactKey(J[k]) = FactKey(r)
              THEN [r EXCEPT !.rate =
                      J[CHOOSE k \in 1..Len(J) : FactKey(J[k]) = FactKey(r)].rate]
              ELSE r : r \in table}
  IN  [table |-> upd \cup new,
       seq   |-> IF burn THEN seq + Len(J) ELSE seq + Len(ins)]

\* INSERT INTO fact_fx_rates (...) SELECT ... ON CONFLICT ... DO NOTHING:
\* the table and seq_rate_id after the statement.  rate_id is drawn from
\* the sequence row by row, created_at is current_timestamp.
InsertFacts(table, seq, J, now) ==
  LET ins == SelectSeq([k \in 1..Len(J) |-> k], LAMBDA k : Inserted(table, J, k))
      new == {[rate_id          |-> IF burn THEN seq + ins[m] - 1 ELSE seq + m - 1,
               date_id          |-> J[ins[m]].date_id,
               from_currency_id |-> J[ins[m]].from_currency_id,
               to_currency_id   |-> J[ins[m]].to_currency_id,
               rate             |-> J[ins[m]].rate,
               created_at       |-> now] : m \in 1..Len(ins)}
  IN  [table |-> table \cup new,
       seq   |-> IF burn THEN seq + Len(J) ELSE seq + Len(ins)]

\* the tables and sequences of the database
Database ==
  [dim_currency |-> dim_currency, seq_currency_id |-> seq_currency_id,
   dim_date |-> dim_date, seq_date_id |-> seq_date_id,
   fact_fx_rates |-> fact_fx_rates, seq_rate_id |-> seq_rate_id]

\* the database after the DDL on a new file
EmptyDatabase ==
  [dim_currency |-> {}, seq_currency_id |-> 1,
   dim_date |-> {}, seq_date_id |-> 1,
   fact_fx_rates |-> {}, seq_rate_id |-> 1]

\* load(df) run to its end on database db: _load_dim_currency,
\* _load_dim_date, _load_fact in this order
load(db, frame, now) ==
  LET c     == DimCurrencyLoop([table |-> db.dim_currency, seq |-> db.seq_currency_id],
                               Len(CURRENCIES))
      dates == UniqueDates(frame)
      d     == DimDateLoop([table |-> db.dim_date, seq |-> db.seq_date_id],
                           dates, Len(dates))
      f     == InsertFacts(db.fact_fx_rates, db.seq_rate_id,
                           Joined(frame, d.table, c.table), now)
  IN  [dim_currency |-> c.table, seq_currency_id |-> c.seq,
       dim_date |-> d.table, seq_date_id |-> d.seq,
       fact_fx_rates |-> f.table, seq_rate_id |-> f.seq]

(***************************************************************************)
(* etl/load_azure.py                                                       *)
(***************************************************************************)
\* polars dt.weekday(): ISO weekday, Monday = 1 ... Sunday = 7
PolarsWeekday(n) == PyWeekday(n) + 1

\* polars dt.quarter()
PolarsQuarter(n) == ((MonthOf(n) - 1) \div 3) + 1

_build_dim_currency ==
  [k \in 1..Len(CURRENCIES) |->
     [currency_code |-> CURRENCIES[k],
      currency_name |-> CURRENCY_NAMES[CURRENCIES[k]]]]

_build_dim_date(frame) ==
  LET dates == UniqueDates(frame)
  IN  [k \in 1..Len(dates) |->
         [full_date  |-> dates[k],
          year       |-> YearOf(dates[k]),
          month      |-> MonthOf(dates[k]),
          quarter    |-> PolarsQuarter(dates[k]),
          day        |-> DayOf(dates[k]),
          is_weekend |-> PolarsWeekday(dates[k]) >= 5]]

_build_fact(frame) ==
  [k \in 1..Len(frame) |->
     [full_date          |-> frame[k].date,
      from_currency_code |-> frame[k].from_currency,
      to_currency_code   |-> frame[k].to_currency,
      rate               |-> frame[k].rate,
      year               |-> YearOf(frame[k].date),
      month              |-> MonthOf(frame[k].date)]]

\* the keys of fact.group_by(["year", "month"])
GroupKeys(fact) == {<<fact[k].year, fact[k].month>> : k \in 1..Len(fact)}

\* the group of one key
Group(fact, g) == SelectSeq(fact, LAMBDA r : r.year = g[1] /\ r.month = g[2])

\* the upload after the fact directory has been emptied: only the blob
\* written is left
_upload_parquet_emptied(blobs, g, rows) == [k \in {g} |-> rows]

\* upload_blob(name = the path of partition g, data, overwrite=True)
_upload_parquet(blobs, g, rows) ==
  [k \in DOMAIN blobs \cup {g} |-> IF k = g THEN rows ELSE blobs[k]]

(***************************************************************************)
(* etl/extract.py: what the source may answer                              *)
(***************************************************************************)
\* the answer for the days lo..hi: rate table v, and with SEK missing on
\* the first day when gap
MkRaw(lo, hi, v, gap) ==
  [k \in 1..(hi - lo + 1) |->
     [date  |-> DateStrAt(lo + k - 1),
      rates |-> MkRates(v, IF gap /\ k = 1 THEN {"SEK"} ELSE {}, 0)]]

RawInputs ==
  {MkRaw(lo, hi, x[1], x[2]) :
     lo \in 1..MaxDates, hi \in 1..MaxDates,
     x \in {<<1, FALSE>>, <<2, FALSE>>, <<1, TRUE>>}}

(***************************************************************************)
(* pipeline.run                                                            *)
(***************************************************************************)
Init ==
  /\ sink \in {"duckdb", "adls"}
  /\ burn \in (IF sink = "duckdb" THEN BOOLEAN ELSE {FALSE})
  /\ container \in (IF sink = "adls" THEN BOOLEAN ELSE {FALSE})
  /\ calls = <<>>
  /\ pc = "idle" /\ runs = 0 /\ faults = 0
  /\ raw = <<>> /\ df = <<>> /\ outcome = "none"
  /\ tables = FALSE
  /\ seq_currency_id = 1 /\ seq_date_id = 1 /\ seq_rate_id = 1
  /\ dim_currency = {} /\ dim_date = {} /\ fact_fx_rates = {}
  /\ blob_dim_currency = NoBlob /\ blob_dim_date = NoBlob
  /\ blob_fact = <<>>
  /\ groups = {}
  /\ pre = Snapshot /\ prev = NoPrev /\ first_rate = <<>> /\ completed = FALSE

Returned == pc \in {"idle", "complete", "failed"}

\* raw = fetch_fx_rates(start_date, end_date)
Fetch ==
  /\ Returned /\ runs < MaxRuns
  /\ \E r \in RawInputs : r # <<>> /\ raw' = r
  /\ runs' = runs + 1
  /\ pc' = "fetched"
  /\ df' = <<>>
  /\ calls' = <<"fetch">>
  /\ UNCHANGED <<sink, burn, container, faults, outcome, duck, adls, hist>>

\* the source answers with no trading day: data.get("rates", {}) is empty
FetchEmpty ==
  /\ Returned /\ runs < MaxRuns
  /\ raw' = <<>>
  /\ runs' = runs + 1
  /\ pc' = "fetched"
  /\ df' = <<>>
  /\ calls' = <<"fetch">>
  /\ UNCHANGED <<sink, burn, container, faults, outcome, duck, adls, hist>>

\* fetch_fx_rates called again after requests has raised, the second call
\* answering
FetchRaisesRetried ==
  /\ Returned /\ runs < MaxRuns /\ faults < MaxFaults
  /\ \E r \in RawInputs : r # <<>> /\ raw' = r
  /\ runs' = runs + 1
  /\ faults' = faults + 1
  /\ pc' = "fetched"
  /\ df' = <<>>
  /\ calls' = <<"fetch", "fetch">>
  /\ UNCHANGED <<sink, burn, container, outcome, duck, adls, hist>>

\* requests raises: logged and re-raised, run() does not catch it
FetchRaises ==
  /\ Returned /\ runs < MaxRuns /\ faults < MaxFaults
  /\ runs' = runs + 1
  /\ faults' = faults + 1
  /\ raw' = <<>> /\ df' = <<>>
  /\ pc' = "failed"
  /\ outcome' = "source_error"
  /\ calls' = <<"fetch">>
  /\ UNCHANGED <<sink, burn, container, duck, adls, hist>>

\* df = compute_cross_pairs(raw)
Transform ==
  /\ pc = "fetched"
  /\ LET res == compute_cross_pairs(raw)
     IN  IF res.status = "ok"
         THEN /\ df' = res.df
              /\ pc' = "transformed"
              /\ outcome' = outcome
         ELSE /\ df' = <<>>
              /\ pc' = "failed"
              /\ outcome' = "transform_error"
  /\ calls' = Append(calls, "transform")
  /\ UNCHANGED <<sink, burn, container, runs, faults, raw, duck, adls, hist>>

(***************************************************************************)
(* load(df), etl/load.py                                                   *)
(***************************************************************************)
\* with duckdb.connect(DB_PATH) as conn
Connect ==
  /\ pc = "transformed" /\ sink = "duckdb"
  /\ pc' = "connected"
  /\ pre' = Snapshot
  /\ calls' = Append(calls, "load")
  /\ UNCHANGED <<sink, burn, container, runs, faults, raw, df, outcome, duck, adls,
                 prev, first_rate, completed>>

\* conn.execute(DDL): CREATE ... IF NOT EXISTS
ExecuteDDL ==
  /\ pc = "connected"
  /\ tables' = TRUE
  /\ pc' = "schema"
  /\ UNCHANGED <<sink, burn, container, calls, runs, faults, raw, df, outcome,
                 seq_currency_id, seq_date_id, seq_rate_id,
                 dim_currency, dim_date, fact_fx_rates, adls, hist>>

\* _load_dim_currency(conn)
LoadDimCurrency ==
  /\ pc = "schema" /\ tables
  /\ LET st == DimCurrencyLoop([table |-> dim_currency, seq |-> seq_currency_id],
                               Len(CURRENCIES))
     IN  dim_currency' = st.table /\ seq_currency_id' = st.seq
  /\ pc' = "currency"
  /\ UNCHANGED <<sink, burn, container, calls, runs, faults, raw, df, outcome, tables,
                 seq_date_id, seq_rate_id, dim_date, fact_fx_rates, adls, hist>>

\* _load_dim_date(conn, df)
LoadDimDate ==
  /\ pc = "currency"
  /\ LET dates == UniqueDates(df)
         st == DimDateLoop([table |-> dim_date, seq |-> seq_date_id],
                           dates, Len(dates))
     IN  dim_date' = st.table /\ seq_date_id' = st.seq
  /\ pc' = "date"
  /\ UNCHANGED <<sink, burn, container, calls, runs, faults, raw, df, outcome, tables,
                 seq_currency_id, seq_rate_id, dim_currency, fact_fx_rates,
                 adls, hist>>

\* the history of fact writes: the rate and time of the first write of each key of df
FirstRates(old, frame, now) ==
  LET keys == {<<frame[k].date, frame[k].from_currency, frame[k].to_currency>> :
                 k \in 1..Len(frame)}
  IN  [key \in DOMAIN old \cup keys |->
         IF key \in DOMAIN old THEN old[key]
         ELSE LET k == CHOOSE k \in 1..Len(frame) :
                         <<frame[k].date, frame[k].from_currency,
                           frame[k].to_currency>> = key
              IN  [rate |-> frame[k].rate, at |-> now]]

\* load with _load_fact called before _load_dim_date
LoadFactBeforeDates ==
  /\ pc = "currency"
  /\ LET st == InsertFacts(fact_fx_rates, seq_rate_id,
                           Joined(df, dim_date, dim_currency), runs)
     IN  fact_fx_rates' = st.table /\ seq_rate_id' = st.seq
  /\ first_rate' = FirstRates(first_rate, df, runs)
  /\ pc' = "fact"
  /\ UNCHANGED <<sink, burn, container, calls, runs, faults, raw, df, outcome, tables,
                 seq_currency_id, seq_date_id, dim_currency, dim_date,
                 adls, pre, prev, completed>>

\* _load_fact(conn, df)
LoadFact ==
  /\ pc = "date"
  /\ LET st == InsertFacts(fact_fx_rates, seq_rate_id,
                           Joined(df, dim_date, dim_currency), runs)
     IN  fact_fx_rates' = st.table /\ seq_rate_id' = st.seq
  /\ first_rate' = FirstRates(first_rate, df, runs)
  /\ pc' = "fact"
  /\ UNCHANGED <<sink, burn, container, calls, runs, faults, raw, df, outcome, tables,
                 seq_currency_id, seq_date_id, dim_currency, dim_date,
                 adls, pre, prev, completed>>

\* the with block is left, load returns, run logs "Pipeline complete"
Close ==
  /\ pc = "fact"
  /\ pc' = "complete"
  /\ outcome' = "ok"
  /\ prev' = [ok |-> TRUE, df |-> df, snap |-> Snapshot]
  /\ completed' = TRUE
  /\ UNCHANGED <<sink, burn, container, calls, runs, faults, raw, df, duck, adls, pre, first_rate>>

\* a statement of load raises: the with block closes the connection and the
\* exception leaves load and run; the statements executed before it stay
\* committed (each conn.execute commits on its own)
LoadRaises ==
  /\ faults < MaxFaults
  /\ \/ /\ pc = "connected"
        /\ UNCHANGED duck
     \/ /\ pc = "schema" /\ tables
        /\ \E k \in 0..(Len(CURRENCIES) - 1) :
             LET st == DimCurrencyLoop([table |-> dim_currency,
                                        seq |-> seq_currency_id], k)
             IN  dim_currency' = st.table /\ seq_currency_id' = st.seq
        /\ UNCHANGED <<tables, seq_date_id, seq_rate_id, dim_date, fact_fx_rates>>
     \/ /\ pc = "currency"
        /\ \E k \in 0..(Len(UniqueDates(df)) - 1) :
             LET st == DimDateLoop([table |-> dim_date, seq |-> seq_date_id],
                                   UniqueDates(df), k)
             IN  dim_date' = st.table /\ seq_date_id' = st.seq
        /\ UNCHANGED <<tables, seq_currency_id, seq_rate_id, dim_currency,
                       fact_fx_rates>>
     \/ /\ pc = "date"
        /\ UNCHANGED duck
  /\ faults' = faults + 1
  /\ pc' = "failed"
  /\ outcome' = "sink_error"
  /\ prev' = NoPrev
  /\ UNCHANGED <<sink, burn, container, calls, runs, raw, df, adls, pre, first_rate, completed>>

(***************************************************************************)
(* load_azure(df), etl/load_azure.py                                       *)
(***************************************************************************)
\* client = _get_client()
GetClient ==
  /\ pc = "transformed" /\ sink = "adls"
  /\ pc' = "client"
  /\ pre' = Snapshot
  /\ calls' = Append(calls, "load")
  /\ UNCHANGED <<sink, burn, container, runs, faults, raw, df, outcome, duck, adls,
                 prev, first_rate, completed>>

\* _upload_parquet(client, container, "dim/dim_currency.parquet", ...)
UploadDimCurrency ==
  /\ pc = "client" /\ container
  /\ blob_dim_currency' = Blob(_build_dim_currency)
  /\ pc' = "az_currency"
  /\ UNCHANGED <<sink, burn, container, calls, runs, faults, raw, df, outcome, duck,
                 blob_dim_date, blob_fact, groups, hist>>

\* _upload_parquet(client, container, "dim/dim_date.parquet", ...);
\* fact = _build_fact(df) and its groups
UploadDimDate ==
  /\ pc = "az_currency"
  /\ blob_dim_date' = Blob(_build_dim_date(df))
  /\ groups' = GroupKeys(_build_fact(df))
  /\ pc' = "az_date"
  /\ UNCHANGED <<sink, burn, container, calls, runs, faults, raw, df, outcome, duck,
                 blob_dim_currency, blob_fact, hist>>

\* one turn of the loop over fact.group_by(["year", "month"]), whose order
\* polars does not fix
UploadPartition ==
  /\ pc = "az_date"
  /\ \E g \in groups :
       /\ blob_fact' = _upload_parquet(blob_fact, g, Group(_build_fact(df), g))
       /\ groups' = groups \ {g}
  /\ UNCHANGED <<sink, burn, container, calls, pc, runs, faults, raw, df, outcome, duck,
                 blob_dim_currency, blob_dim_date, hist>>

\* the loop is over, load_azure returns, run logs "Pipeline complete"
AzureDone ==
  /\ pc = "az_date" /\ groups = {}
  /\ pc' = "complete"
  /\ outcome' = "ok"
  /\ prev' = [ok |-> TRUE, df |-> df, snap |-> Snapshot]
  /\ completed' = TRUE
  /\ UNCHANGED <<sink, burn, container, calls, runs, faults, raw, df, duck, adls, pre, first_rate>>

\* the first upload_blob of a call when the container does not exist: the
\* service answers ContainerNotFound, the exception leaves load_azure and run
UploadToMissingContainer ==
  /\ pc = "client" /\ ~container
  /\ pc' = "failed"
  /\ outcome' = "sink_error"
  /\ prev' = NoPrev
  /\ UNCHANGED <<sink, burn, container, calls, runs, faults, raw, df, duck, adls,
                 pre, first_rate, completed>>

\* an upload raises: the blob it was writing keeps its content, the
\* exception leaves load_azure and run
UploadRaises ==
  /\ faults < MaxFaults
  /\ \/ pc \in {"client", "az_currency"}
     \/ pc = "az_date" /\ groups # {}
  /\ faults' = faults + 1
  /\ pc' = "failed"
  /\ outcome' = "sink_error"
  /\ groups' = {}
  /\ prev' = NoPrev
  /\ UNCHANGED <<sink, burn, container, calls, runs, raw, df, duck,
                 blob_dim_currency, blob_dim_date, blob_fact, pre, first_rate, completed>>

Next ==
  \/ Fetch \/ FetchEmpty \/ FetchRaises \/ Transform
  \/ Connect \/ ExecuteDDL \/ LoadDimCurrency \/ LoadDimDate \/ LoadFact
  \/ Close \/ LoadRaises
  \/ GetClient \/ UploadDimCurrency \/ UploadDimDate \/ UploadPartition
  \/ AzureDone \/ UploadRaises \/ UploadToMissingContainer

Spec == Init /\ [][Next]_vars

(***************************************************************************)
(* compute_cross_pairs alone: a run that has fetched any raw mapping of at *)
(* most MaxRawLen dates, in any order of its dates, is taken through the   *)
(* transform.                                                              *)
(***************************************************************************)
\* the items a raw mapping r can be extended with, rates from P
Items(r, P) ==
  {[date |-> DateStrAt(k), rates |-> p] :
     k \in {x \in 1..MaxDates : \A i \in 1..Len(r) : r[i].date # DateStrAt(x)},
     p \in P}

RECURSIVE RawsT(_, _)
\* the raw mappings of n dates, in any insertion order of the dates, all
\* complete (odd = FALSE) or all but one complete (odd = TRUE)
RawsT(n, odd) ==
  IF n = 0 THEN (IF odd THEN {} ELSE {<<>>})
  ELSE UNION {{Append(r, it) : it \in Items(r, FullProfiles)} : r \in RawsT(n - 1, odd)}
         \cup (IF odd
               THEN UNION {{Append(r, it) : it \in Items(r, OddProfiles)} :
                             r \in RawsT(n - 1, FALSE)}
               ELSE {})

RawInputsT == UNION {RawsT(n, odd) : n \in 0..MaxRawLen, odd \in BOOLEAN}

InitT ==
  /\ sink = "duckdb" /\ burn = FALSE /\ container = FALSE
  /\ calls = <<"fetch">>
  /\ pc = "fetched" /\ runs = 1 /\ faults = 0
  /\ raw \in RawInputsT
  /\ df = <<>> /\ outcome = "none"
  /\ tables = FALSE
  /\ seq_currency_id = 1 /\ seq_date_id = 1 /\ seq_rate_id = 1
  /\ dim_currency = {} /\ dim_date = {} /\ fact_fx_rates = {}
  /\ blob_dim_currency = NoBlob /\ blob_dim_date = NoBlob
  /\ blob_fact = <<>>
  /\ groups = {}
  /\ pre = Snapshot /\ prev = NoPrev /\ first_rate = <<>> /\ completed = FALSE

SpecT == InitT /\ [][Transform]_vars

(***************************************************************************)
(* Properties of compute_cross_pairs (checked under SpecT)                 *)
(***************************************************************************)
\* the Date of an item of raw_rates
DateOf(item) == DaysFromCivil(item.date)

RowsOn(frame, d) == SelectSeq(frame, LAMBDA r : r.date = d)

\* the item supplies a rate for every non-base configured currency
Complete(item) == NonBase \subseteq DOMAIN item.rates

NumCurrencies == Len(CURRENCIES)

\* compute_cross_pairs has returned / has raised
TransformDone == pc \in {"transformed", "failed"}

\* C5: for every date whose raw mapping has a rate for each of the N-1
\* non-base currencies, compute_cross_pairs returns exactly N*(N-1) rows of
\* that date, one for each ordered pair of distinct configured currencies,
\* and no row at all has from_currency = to_currency.
C5_RowCount ==
  (TransformDone /\ \E i \in 1..Len(raw) : Complete(raw[i])) =>
    /\ pc = "transformed"
    /\ \A k \in 1..Len(df) : df[k].from_currency # df[k].to_currency
    /\ \A i \in 1..Len(raw) :
         Complete(raw[i]) =>
           LET rows == RowsOn(df, DateOf(raw[i]))
           IN  /\ Len(rows) = NumCurrencies * (NumCurrencies - 1)
               /\ \A a, b \in CurrencySet :
                    a # b =>
                      Cardinality({k \in 1..Len(rows) :
                                     /\ rows[k].from_currency = a
                                     /\ rows[k].to_currency = b}) = 1

\* two complete dates have gone through the transform: 84 rows
C5_Witness ==
  /\ pc = "transformed"
  /\ Len(raw) = 2 /\ Complete(raw[1]) /\ Complete(raw[2])
  /\ Len(df) = 84

\* hundredths as <<whole part, millionths>>
Millionths(h) == <<h \div 100, (h % 100) * 10000>>

\* the rate table the claim speaks of: the raw rates of the configured
\* currencies, the base currency at 1.0
ClaimedTable(rates) ==
  [c \in CurrencySet \cap (DOMAIN rates \cup {BASE_CURRENCY}) |->
     IF c = BASE_CURRENCY THEN BaseSelfRate ELSE rates[c]]

\* C6: every emitted rate(A->B) is b / a rounded to 6 decimals, a and b the
\* raw base-relative rates of A and B (1.0 for the base currency), and every
\* emitted rate(base->X) is the raw rate of X, whatever keys the raw mapping
\* of the date has.
C6_CrossRate ==
  pc = "transformed" =>
    \A i \in 1..Len(raw), k \in 1..Len(df) :
      df[k].date = DateOf(raw[i]) =>
        LET t == ClaimedTable(raw[i].rates)
            r == df[k]
        IN  /\ r.rate = round6(t[r.to_currency], t[r.from_currency])
            /\ r.from_currency = BASE_CURRENCY => r.rate = Millionths(t[r.to_currency])

\* raw with currency c of item i supplied (at its rate of the first fixture row)
Fill(r, i, c) ==
  [r EXCEPT ![i].rates =
     [x \in NonBase |-> IF x = c THEN FixtureRates[1][c] ELSE r[i].rates[x]]]

\* C7: when one non-base currency c is absent from the raw mapping of one
\* date and the other dates are complete, compute_cross_pairs returns, and
\* what it returns is what it returns with c present, less the rows of that
\* date from or to c: (N-1)*(N-2) rows are left for the date.
C7_MissingCurrency ==
  \A i \in 1..Len(raw), c \in NonBase :
    (/\ TransformDone
     /\ DOMAIN raw[i].rates = NonBase \ {c}
     /\ \A j \in 1..Len(raw) : j # i => Complete(raw[j]))
    => /\ pc = "transformed"
       /\ df = SelectSeq(compute_cross_pairs(Fill(raw, i, c)).df,
                         LAMBDA r : ~(/\ r.date = DateOf(raw[i])
                                      /\ c \in {r.from_currency, r.to_currency}))
       /\ Len(RowsOn(df, DateOf(raw[i])))
            = (NumCurrencies - 1) * (NumCurrencies - 2)
       /\ \A k \in 1..Len(df) :
            df[k].date = DateOf(raw[i]) =>
              c \notin {df[k].from_currency, df[k].to_currency}

\* a date without SEK and a complete date have gone through the transform
C7_Witness ==
  /\ pc = "transformed"
  /\ Len(raw) = 2
  /\ DOMAIN raw[1].rates = NonBase \ {"SEK"}
  /\ Complete(raw[2])
  /\ Len(df) = 30 + 42

\* no pair of configured currencies has both its rates on any date
NoPair(r) ==
  \A i \in 1..Len(r) :
    Cardinality(CurrencySet \cap (DOMAIN r[i].rates \cup {BASE_CURRENCY})) < 2

\* C9: called with a mapping that has no date, or from which no pair can be
\* computed, compute_cross_pairs returns an empty sequence of rows and
\* raises nothing.
C9_EmptyInput ==
  (TransformDone /\ NoPair(raw)) => (pc = "transformed" /\ df = <<>>)

(***************************************************************************)
(* Properties of the local sink (checked under Spec)                       *)
(***************************************************************************)
\* all statements of the current load call have been executed
LoadExecuted == pc = "fact"

\* C1: load(batch) called again with the batch of the load call before it,
\* on the same database, leaves fact_fx_rates, dim_date and dim_currency
\* with the rows they had after that call.
C1_LoadTwice ==
  (LoadExecuted /\ prev.ok /\ prev.df = df) =>
    /\ fact_fx_rates = prev.snap.fact_fx_rates
    /\ dim_date = prev.snap.dim_date
    /\ dim_currency = prev.snap.dim_currency
    /\ Cardinality(fact_fx_rates) = Cardinality(prev.snap.fact_fx_rates)

\* two dates x 7 currencies loaded a second time: still 84 fact rows
C1_Witness ==
  /\ LoadExecuted /\ prev.ok /\ prev.df = df
  /\ Len(df) = 84
  /\ Cardinality(fact_fx_rates) = 84

\* the natural keys (date, from_currency, to_currency) of a fact row
NaturalKeys(r) ==
  {<<d.full_date, fc.currency_code, tc.currency_code>> :
     d  \in {x \in dim_date : x.date_id = r.date_id},
     fc \in {x \in dim_currency : x.currency_id = r.from_currency_id},
     tc \in {x \in dim_currency : x.currency_id = r.to_currency_id}}

RowKey(r) == <<r.date, r.from_currency, r.to_currency>>

\* C2: the rate (and the created_at) stored for a key is that of the first
\* fact write that carried the key, and no fact row that existed when a
\* load call started has been changed or removed by it.
C2_AppendOnce ==
  /\ \A r \in fact_fx_rates : \A key \in NaturalKeys(r) :
       /\ key \in DOMAIN first_rate
       /\ r.rate = first_rate[key].rate
       /\ r.created_at = first_rate[key].at
  /\ \A r \in pre.fact_fx_rates : r \in fact_fx_rates

\* a load that carried a stored key with another rate has returned without error
C2_Witness ==
  /\ pc = "complete" /\ outcome = "ok" /\ sink = "duckdb"
  /\ \E k \in 1..Len(df) :
       /\ RowKey(df[k]) \in DOMAIN first_rate
       /\ first_rate[RowKey(df[k])].rate # df[k].rate
       /\ \E r \in fact_fx_rates :
            /\ RowKey(df[k]) \in NaturalKeys(r)
            /\ r.rate = first_rate[RowKey(df[k])].rate

\* C3: fact_fx_rates has at most one row per (date, from_currency,
\* to_currency), dim_date at most one row per full_date, dim_currency at
\* most one row per code and only configured codes, and exactly one row per
\* configured code once a load has completed.
C3_NaturalKeys ==
  /\ Cardinality({FactKey(r) : r \in fact_fx_rates}) = Cardinality(fact_fx_rates)
  /\ Cardinality(UNION {NaturalKeys(r) : r \in fact_fx_rates})
       = Cardinality(fact_fx_rates)
  /\ \A d1, d2 \in dim_date : d1.full_date = d2.full_date => d1 = d2
  /\ \A c1, c2 \in dim_currency : c1.currency_code = c2.currency_code => c1 = c2
  /\ \A c \in dim_currency : c.currency_code \in CurrencySet
  /\ (sink = "duckdb" /\ completed) =>
       /\ {c.currency_code : c \in dim_currency} = CurrencySet
       /\ Cardinality(dim_currency) = Len(CURRENCIES)

\* a second load has executed on a database that held the dimensions and facts
C3_Witness ==
  /\ LoadExecuted /\ completed /\ runs = 2
  /\ Cardinality(dim_currency) = Len(CURRENCIES)
  /\ Cardinality(dim_date) = 2
  /\ Cardinality(fact_fx_rates) = 84
  /\ Cardinality(pre.fact_fx_rates) = 42

\* C4: in every state, inside a load call too, every fact row has its
\* date_id in dim_date and its from and to currency ids in dim_currency.
C4_References ==
  \A r \in fact_fx_rates :
    /\ \E d \in dim_date : d.date_id = r.date_id
    /\ \E c \in dim_currency : c.currency_id = r.from_currency_id
    /\ \E c \in dim_currency : c.currency_id = r.to_currency_id

\* inside a load, between the date dimension and the fact write: facts of
\* an earlier load are there, and a date no fact refers to yet
C4_Witness ==
  /\ pc = "date"
  /\ fact_fx_rates # {}
  /\ \E d \in dim_date : \A r \in fact_fx_rates : r.date_id # d.date_id

(***************************************************************************)
(* Properties of the object-storage sink (checked under Spec)              *)
(***************************************************************************)
\* every upload of the current load_azure call has been made
UploadsDone == pc = "az_date" /\ groups = {}

\* a load_azure call is under way or has returned, df being its batch
InLoadAzure == pc \in {"client", "az_currency", "az_date"} \/ (pc = "complete" /\ sink = "adls")

\* C8: load_azure called again with the batch of the call before it leaves
\* every fact partition, dim_currency and dim_date as that call left them;
\* and a load_azure call leaves every fact partition of a (year, month) its
\* batch has no date of as it was when the call started.
C8_Partitions ==
  /\ (UploadsDone /\ prev.ok /\ prev.df = df) =>
       /\ blob_fact = prev.snap.blob_fact
       /\ blob_dim_currency = prev.snap.blob_dim_currency
       /\ blob_dim_date = prev.snap.blob_dim_date
  /\ InLoadAzure =>
       \A g \in DOMAIN pre.blob_fact :
         g \notin GroupKeys(_build_fact(df)) =>
           /\ g \in DOMAIN blob_fact
           /\ blob_fact[g] = pre.blob_fact[g]
           /\ Len(blob_fact[g]) = Len(pre.blob_fact[g])

\* the batch of two months has been uploaded a second time
C8_Witness ==
  /\ UploadsDone /\ prev.ok /\ prev.df = df
  /\ Cardinality(DOMAIN blob_fact) = 2
  /\ Cardinality(GroupKeys(_build_fact(df))) = 2

(***************************************************************************)
(* Failure of a load call (checked under Spec)                             *)
(***************************************************************************)
Rows(seq) == {seq[k] : k \in 1..Len(seq)}

\* C10: when a step of a load call fails, the call is over with an error
\* (it is not reported as a success), and every dimension row and fact row
\* that was persisted when the call started is still there, unchanged, in
\* either sink.
C10_FailedLoad ==
  (pc = "failed" /\ outcome = "sink_error") =>
    /\ \A r \in pre.dim_currency : r \in dim_currency
    /\ \A r \in pre.dim_date : r \in dim_date
    /\ \A r \in pre.fact_fx_rates : r \in fact_fx_rates
    /\ Rows(pre.blob_dim_currency.rows) \subseteq Rows(blob_dim_currency.rows)
    /\ Rows(pre.blob_dim_date.rows) \subseteq Rows(blob_dim_date.rows)
    /\ \A g \in DOMAIN pre.blob_fact :
         /\ g \in DOMAIN blob_fact
         /\ Rows(pre.blob_fact[g]) \subseteq Rows(blob_fact[g])

(***************************************************************************)
(* Order and sign of the rows of compute_cross_pairs (checked under SpecT) *)
(***************************************************************************)
\* the place of a currency code in string order
Rank(c) == CHOOSE i \in 1..Len(CodeOrder) : CodeOrder[i] = c

\* row a is before row b in the order of (date, from_currency, to_currency)
KeyLess(a, b) ==
  \/ a.date < b.date
  \/ /\ a.date = b.date
     /\ \/ Rank(a.from_currency) < Rank(b.from_currency)
        \/ /\ a.from_currency = b.from_currency
           /\ Rank(a.to_currency) < Rank(b.to_currency)

\* the rows the content of a raw mapping stands for, as a set: nothing of
\* the order of its dates or of CURRENCIES enters
ContentRows(raw_rates) ==
  UNION {LET full == full_rates(raw_rates[i].rates)
             have == CurrencySet \cap DOMAIN full
         IN  {[date          |-> DateOf(raw_rates[i]),
               from_currency |-> p[1],
               to_currency   |-> p[2],
               rate          |-> round6(full[p[2]], full[p[1]])] :
                p \in {q \in have \X have : q[1] # q[2]}}
         : i \in 1..Len(raw_rates)}

\* C11: the rows returned by compute_cross_pairs are strictly ascending by
\* (date, from_currency, to_currency), so no two share a key, and they are
\* exactly the rows the content of the raw mapping stands for: the sequence
\* does not depend on the order of the dates in the mapping or on the order
\* of CURRENCIES.
C11_SortedOutput ==
  pc = "transformed" =>
    /\ \A k \in 1..(Len(df) - 1) : KeyLess(df[k], df[k + 1])
    /\ Rows(df) = ContentRows(raw)
    /\ Len(df) = Cardinality(ContentRows(raw))

\* a mapping whose dates are not in ascending order has been transformed
C11_Witness ==
  /\ pc = "transformed"
  /\ Len(raw) = 2
  /\ DateOf(raw[1]) > DateOf(raw[2])
  /\ Len(df) = 84

\* every rate the raw mapping supplies is strictly positive
AllPositive(raw_rates) ==
  \A i \in 1..Len(raw_rates) : \A c \in DOMAIN raw_rates[i].rates :
    raw_rates[i].rates[c] > 0

\* a rounded rate is strictly positive
Positive(rate) == rate[1] > 0 \/ rate[2] > 0

\* C12: when every rate of the raw mapping is strictly positive, every row
\* returned by compute_cross_pairs has, after rounding to 6 decimals, a
\* rate > 0 (and load stores the rates of the rows as they are).
C12_PositiveRates ==
  (pc = "transformed" /\ AllPositive(raw)) =>
    \A k \in 1..Len(df) : Positive(df[k].rate)

(***************************************************************************)
(* Loads of overlapping ranges in the local sink (checked under Spec)      *)
(***************************************************************************)
\* the dates of a batch
DatesOf(frame) == {frame[k].date : k \in 1..Len(frame)}

\* the fact rows of a database by their natural keys: (date, from, to, rate)
StoredRows(db) ==
  UNION {{[date          |-> d.full_date,
           from_currency |-> fc.currency_code,
           to_currency   |-> tc.currency_code,
           rate          |-> r.rate] :
            d  \in {x \in db.dim_date : x.date_id = r.date_id},
            fc \in {x \in db.dim_currency : x.currency_id = r.from_currency_id},
            tc \in {x \in db.dim_currency : x.currency_id = r.to_currency_id}} :
          r \in db.fact_fx_rates}

\* the natural keys of dim_date
DateKeys(db) == {d.full_date : d \in db.dim_date}

\* the two batches come from the same source data: on a date both have,
\* they have the same rows
SameSource(a, b) ==
  \A d \in DatesOf(a) \cap DatesOf(b) : Rows(RowsOn(a, d)) = Rows(RowsOn(b, d))

\* the batch of the union of the two ranges
UnionBatch(a, b) ==
  SortRows(a \o SelectSeq(b, LAMBDA r : r \notin Rows(a)))

\* C13: with the same source data, the load of the batch of a range on a
\* new database followed by the load of the batch of an overlapping range
\* leaves the fact rows (date, from, to, rate) and the dates of dim_date
\* that one load of the batch of the union of the ranges leaves; loading
\* either batch once more changes no table.
C13_OverlappingRanges ==
  (/\ LoadExecuted /\ runs = 2 /\ prev.ok
   /\ SameSource(prev.df, df)
   /\ DatesOf(prev.df) \cap DatesOf(df) # {})
  => LET now == Database
         one == load(EmptyDatabase, UnionBatch(prev.df, df), 1)
         re1 == load(now, df, 3)
         re2 == load(now, prev.df, 3)
     IN  /\ StoredRows(now) = StoredRows(one)
         /\ DateKeys(now) = DateKeys(one)
         /\ Cardinality(now.fact_fx_rates) = Cardinality(one.fact_fx_rates)
         /\ re1.fact_fx_rates = now.fact_fx_rates /\ re1.dim_date = now.dim_date
         /\ re1.dim_currency = now.dim_currency
         /\ re2.fact_fx_rates = now.fact_fx_rates /\ re2.dim_date = now.dim_date
         /\ re2.dim_currency = now.dim_currency

\* two ranges that overlap, neither within the other, have been loaded
C13_Witness ==
  /\ LoadExecuted /\ runs = 2 /\ prev.ok
  /\ SameSource(prev.df, df)
  /\ DatesOf(prev.df) \cap DatesOf(df) # {}
  /\ DatesOf(prev.df) \ DatesOf(df) # {}
  /\ DatesOf(df) \ DatesOf(prev.df) # {}
  /\ Cardinality(fact_fx_rates) = 126

(***************************************************************************)
(* Order of the steps of a load call (checked under Spec)                  *)
(***************************************************************************)
\* the codes dim_currency holds
CodesLoaded == {c.currency_code : c \in dim_currency}

\* one step of the local sink is taken in its place
LocalStepInOrder ==
  /\ (pc' = "schema" /\ pc # "schema") => (pc = "connected" /\ tables')
  /\ (pc' = "currency" /\ pc # "currency") =>
       (pc = "schema" /\ tables /\ CurrencySet \subseteq {c.currency_code : c \in dim_currency'})
  /\ (pc' = "date" /\ pc # "date") =>
       (pc = "currency" /\ DatesOf(df) \subseteq {d.full_date : d \in dim_date'})
  /\ (pc' = "fact" /\ pc # "fact") =>
       /\ pc = "date" /\ tables
       /\ CurrencySet \subseteq CodesLoaded
       /\ DatesOf(df) \subseteq DateKeys(Database)
  /\ dim_currency' # dim_currency => (pc = "schema" /\ tables)
  /\ dim_date' # dim_date => pc = "currency"
  /\ fact_fx_rates' # fact_fx_rates => (pc = "date" /\ pc' = "fact")

\* one step of the object-storage sink is taken in its place
AzureStepInOrder ==
  /\ (pc' = "az_currency" /\ pc # "az_currency") =>
       (pc = "client" /\ blob_dim_currency' = Blob(_build_dim_currency))
  /\ (pc' = "az_date" /\ pc # "az_date") =>
       (pc = "az_currency" /\ blob_dim_date' = Blob(_build_dim_date(df)))
  /\ blob_dim_currency' # blob_dim_currency => pc = "client"
  /\ blob_dim_date' # blob_dim_date => pc = "az_currency"
  /\ blob_fact' # blob_fact =>
       /\ pc = "az_date"
       /\ blob_dim_currency = Blob(_build_dim_currency)
       /\ blob_dim_date = Blob(_build_dim_date(df))

\* C14 (as the code has it): in every load call the currency dimension is
\* written before the date dimension, the date dimension, with every date
\* of the batch, before the facts, and no fact is written before both; the
\* local sink applies its DDL before all of them.  load_azure has no step
\* that makes the container exist: its first statement after building the
\* client is the upload of dim_currency.
C14_StepOrder == [][LocalStepInOrder /\ AzureStepInOrder]_vars

\* a load_azure call has made all its uploads, two partitions among them
C14_Witness ==
  /\ sink = "adls" /\ pc = "az_date" /\ groups = {}
  /\ blob_dim_currency.exists /\ blob_dim_date.exists
  /\ Cardinality(DOMAIN blob_fact) = 2
  /\ Len(blob_dim_date.rows) = 3

\* C14 (as stated), the step the code lacks: when load_azure comes to write
\* the currency dimension, step (1) has made sure the container exists.
C14_ContainerEnsured ==
  (sink = "adls" /\ pc \in {"client", "az_currency", "az_date"}) => container

(***************************************************************************)
(* The date dimension in the two sinks (checked under Spec)                *)
(***************************************************************************)
\* the attributes of a dim_date row, of either sink
DateAttributes(r) ==
  [year |-> r.year, month |-> r.month, quarter |-> r.quarter, day |-> r.day,
   is_weekend |-> r.is_weekend]

\* date d is a Saturday or a Sunday (1970-01-01, day 0, was a Thursday)
SaturdayOrSunday(d) == (d + 4) % 7 \in {0, 6}

\* the attributes the claim gives date d
ClaimedAttributes(d) ==
  [year |-> YearOf(d), month |-> MonthOf(d),
   quarter |-> ((MonthOf(d) - 1) \div 3) + 1, day |-> DayOf(d),
   is_weekend |-> SaturdayOrSunday(d)]

\* C15: every dim_date row of the local sink and every dim_date row of the
\* object-storage sink carries the year, month, quarter, day and is_weekend
\* the claim gives its date, so the two sinks agree on every date:
\* quarter = (month-1) div 3 + 1, is_weekend exactly on Saturdays and Sundays.
C15_DateAttributes ==
  /\ \A r \in dim_date : DateAttributes(r) = ClaimedAttributes(r.full_date)
  /\ \A k \in 1..Len(blob_dim_date.rows) :
       /\ DateAttributes(blob_dim_date.rows[k])
            = ClaimedAttributes(blob_dim_date.rows[k].full_date)
       /\ DateAttributes(blob_dim_date.rows[k])
            = DateAttributes(DimDateRow(0, blob_dim_date.rows[k].full_date))

(***************************************************************************)
(* The stages of pipeline.run (checked under Spec)                         *)
(***************************************************************************)
Stages == <<"fetch", "transform", "load">>

\* what the sinks hold
Warehouse ==
  <<tables, dim_currency, dim_date, fact_fx_rates,
    blob_dim_currency, blob_dim_date, blob_fact>>

\* the stages invoked so far by the current run, against its position
StagesInOrder ==
  /\ Len(calls) <= Len(Stages)
  /\ \A i \in 1..Len(calls) : calls[i] = Stages[i]
  /\ pc = "fetched" => calls = <<"fetch">>
  /\ pc = "transformed" => calls = <<"fetch", "transform">>
  /\ pc \in {"connected", "schema", "currency", "date", "fact",
             "client", "az_currency", "az_date", "complete"} => calls = Stages
  /\ pc = "complete" => outcome = "ok"
  /\ (pc = "failed" /\ outcome = "source_error") =>
       (calls = <<"fetch">> /\ df = <<>>)

\* a run in which fetch_fx_rates raises ends there, with the source's
\* error, and has changed nothing in the sinks
SourceErrorEndsRun ==
  (runs' # runs /\ pc' = "failed") =>
    (outcome' = "source_error" /\ Warehouse' = Warehouse)

\* an ended run takes no further step: the next step is a new run
EndedRunStays == (pc \in {"failed", "complete"}) => runs' = runs + 1

\* C16: pipeline.run invokes fetch_fx_rates, compute_cross_pairs and load
\* in this order, none more than once, all three when it completes; when
\* fetch_fx_rates raises, the run ends with that error after the one fetch,
\* neither transform nor load is invoked, and the warehouse is unchanged.
C16_Stages ==
  /\ []StagesInOrder
  /\ [][SourceErrorEndsRun /\ EndedRunStays]_vars

\* the source has failed in a run that follows a completed load
C16_Witness ==
  /\ pc = "failed" /\ outcome = "source_error"
  /\ calls = <<"fetch">>
  /\ runs = 2
  /\ fact_fx_rates # {}

(***************************************************************************)
(* The object-storage sink across runs (checked under Spec)                *)
(***************************************************************************)
\* the dates that have fact rows in a partition file
PartitionDates(blob) == {blob[k].full_date : k \in 1..Len(blob)}

\* C17: after a load_azure call has returned, the partition file of every
\* (year, month) still holds the fact rows of every date it held when the
\* call started: runs for different days of a month accumulate in its file.
C17_FactsAccumulate ==
  (sink = "adls" /\ pc = "complete") =>
    \A g \in DOMAIN pre.blob_fact :
      /\ g \in DOMAIN blob_fact
      /\ PartitionDates(pre.blob_fact[g]) \subseteq PartitionDates(blob_fact[g])
      /\ \A k \in 1..Len(pre.blob_fact[g]) :
           pre.blob_fact[g][k].full_date \notin DatesOf(df) =>
             pre.blob_fact[g][k] \in Rows(blob_fact[g])

\* C18: after a load_azure call has returned, every fact row of every
\* partition file has its full_date in dim/dim_date.parquet and its from
\* and to currency codes in dim/dim_currency.parquet.
C18_BlobReferences ==
  (sink = "adls" /\ pc = "complete") =>
    \A g \in DOMAIN blob_fact : \A k \in 1..Len(blob_fact[g]) :
      /\ \E j \in 1..Len(blob_dim_date.rows) :
           blob_dim_date.rows[j].full_date = blob_fact[g][k].full_date
      /\ \E j \in 1..Len(blob_dim_currency.rows) :
           blob_dim_currency.rows[j].currency_code = blob_fact[g][k].from_currency_code
      /\ \E j \in 1..Len(blob_dim_currency.rows) :
           blob_dim_currency.rows[j].currency_code = blob_fact[g][k].to_currency_code

(***************************************************************************)
(* Completeness of the local load (checked under Spec)                     *)
(***************************************************************************)
\* the natural keys of a set of rows (date, from, to, rate)
KeysOf(rows) == {RowKey(r) : r \in rows}

\* C19: when load(df) has executed its statements, on whatever database the
\* earlier loads (failed ones too) left, the joins of _load_fact have given
\* one row for every row of df, every key of df is in fact_fx_rates, and
\* the table has gained exactly the keys of df it did not have.
C19_NoRowDropped ==
  LoadExecuted =>
    LET before == KeysOf(StoredRows(pre))
        after  == KeysOf(StoredRows(Database))
    IN  /\ Len(Joined(df, dim_date, dim_currency)) = Len(df)
        /\ KeysOf(Rows(df)) \subseteq after
        /\ after = before \cup KeysOf(Rows(df))
        /\ Cardinality(fact_fx_rates)
             = Cardinality(pre.fact_fx_rates) + Cardinality(KeysOf(Rows(df)) \ before)

\* a date loaded earlier without the pairs of one currency has gained them
C19_Witness ==
  /\ LoadExecuted
  /\ Cardinality(pre.fact_fx_rates) = 30
  /\ Len(df) = 42
  /\ Cardinality(fact_fx_rates) = 42
  /\ Cardinality(dim_date) = 1

====
